---------------------------- MODULE Spec2Model ----------------------------
(***************************************************************************)
(* Model of the policy-evaluation bridge of beskar's router (the router    *)
(* package appended to src/pkg/api/event/v1/event.pb.go, lines 255-433):   *)
(* the pooled buffers (bufferPool, bufPoolCloser), the per-request         *)
(* funcContext and the two custom functions oci.blob_digest and            *)
(* request.body, each evaluation being one thread of control.              *)
(*                                                                         *)
(* Strings and byte slices are sequences of one-character strings, errors  *)
(* are chains (sequences) of messages, outermost first, so that            *)
(* fmt.Errorf("..%w", err) prepends and errors.As searches the chain.      *)
(***************************************************************************)
EXTENDS Integers, Sequences, FiniteSets, TLC

\* ------------------------------------------------------------- bounds --
\* Number of evaluations (requests) that may be in flight at once.
NEval == 2
\* Invocations of custom functions the evaluator makes in one evaluation.
MaxCalls == 2
\* Capacity of a pooled buffer.  The program's capacity is 8192 bytes
\* (newBuffer, line 288); the model scales it down so that request bodies
\* shorter than, equal to and longer than one buffer are all exercised.
BufCap == 3
\* Close calls a downstream consumer makes on one request body.
MaxClose == 2
\* Layers in a manifest.
MaxLayers == 2
\* Enum lookups recorded in one run.
MaxLookups == 2

Evals == 1..NEval

Min(a, b) == IF a <= b THEN a ELSE b

\* ------------------------------------------------------------- errors --
\* nil error
NoErr == <<>>
\* errors.New / fmt.Errorf without %w
NewErr(msg) == <<msg>>
\* fmt.Errorf("msg: %w", err)
Wrap(msg, err) == <<msg>> \o err
\* A comparison with the outermost error only, as err == target would do.
ErrorsIsOutermost(err, target) == Len(err) > 0 /\ err[1] = target

\* errors.As(err, &target): some error of the chain is a `target`.
ErrorsAs(err, target) == \E i \in 1..Len(err) : err[i] = target

\* -------------------------------------------------------------- terms --
\* *ast.Term values; NoTerm is the nil term returned beside an error.
NoTerm == [t |-> "nil", v |-> <<>>]
StringTerm(s) == [t |-> "string", v |-> s]
NullTerm == [t |-> "null", v |-> <<>>]

\* A value that is not an ast.String (the builtins type-assert their
\* arguments, lines 326-333).
NotString == [t |-> "number", v |-> <<"1">>]
IsString(term) == term.t = "string"

\* --------------------------------------------------- oci.blob_digest --
\* strings.LastIndexByte(s, c): 0-based index of the last c in s, -1 if none.
RECURSIVE LastIndexFrom(_, _, _)
LastIndexFrom(s, c, i) ==
    IF i < 0 THEN -1
    ELSE IF s[i + 1] = c THEN i
    ELSE LastIndexFrom(s, c, i - 1)

\* strings.IndexByte(s, c): the first occurrence instead of the last.
RECURSIVE IndexFrom(_, _, _)
IndexFrom(s, c, i) ==
    IF i >= Len(s) THEN -1
    ELSE IF s[i + 1] = c THEN i
    ELSE IndexFrom(s, c, i + 1)

IndexByte(s, c) == IndexFrom(s, c, 0)

\* The last occurrence, but 0 instead of -1 when there is none.
LastIndexByteOrZero(s, c) ==
    IF LastIndexFrom(s, c, Len(s) - 1) < 0 THEN 0
    ELSE LastIndexFrom(s, c, Len(s) - 1)

LastIndexByte(s, c) == LastIndexFrom(s, c, Len(s) - 1)

\* Go slices s[:i] and s[i:] (0-based, half-open).
SliceTo(s, i) == SubSeq(s, 1, i)
SliceFrom(s, i) == SubSeq(s, i + 1, Len(s))

\* reference.WithName accepts  [domain[:port]/]component[/component]*  over
\* the characters the model uses: "a" (a letter), "1" (a digit), "/", ":".
IsAlnum(c) == c \in {"a", "1"}
IsDigit(c) == c = "1"
IsPathName(s) ==
    /\ Len(s) > 0
    /\ \A i \in 1..Len(s) : IsAlnum(s[i]) \/ s[i] = "/"
    /\ s[1] # "/"
    /\ s[Len(s)] # "/"
    /\ \A i \in 1..(Len(s) - 1) : ~(s[i] = "/" /\ s[i + 1] = "/")
IsHost(s) == Len(s) > 0 /\ \A i \in 1..Len(s) : IsAlnum(s[i])
IsPort(s) == Len(s) > 0 /\ \A i \in 1..Len(s) : IsDigit(s[i])
IsDomain(s) ==
    \/ IsHost(s)
    \/ \E i \in 1..Len(s) :
          /\ s[i] = ":"
          /\ IsHost(SubSeq(s, 1, i - 1))
          /\ IsPort(SubSeq(s, i + 1, Len(s)))
\* TRUE iff reference.WithName(name) returns no error.
WithNameOk(name) ==
    \/ IsPathName(name)
    \/ \E i \in 1..Len(name) :
          /\ name[i] = "/"
          /\ IsDomain(SubSeq(name, 1, i - 1))
          /\ IsPathName(SubSeq(name, i + 1, Len(name)))

\* A decoded manifest layer (v1.Descriptor): media type and v1.Hash.
MediaTypes == {<<"A">>, <<"B">>}
HexAt(i) == [j \in 1..i |-> "f"]
Layer(mt, i) ==
    [MediaType |-> mt, Digest |-> [Algorithm |-> <<"s">>, Hex |-> HexAt(i)]]
\* Manifests: every list of at most MaxLayers layers over MediaTypes; the
\* layer at position i carries the digest HexAt(i).
LayerLists ==
    UNION {{[i \in 1..n |-> Layer(f[i], i)] : f \in [1..n -> MediaTypes]} :
           n \in 0..MaxLayers}

\* The loop without its early return: the last matching layer wins.
RECURSIVE ScanLayersLast(_, _, _)
ScanLayersLast(layers, mediaType, i) ==
    IF i > Len(layers) THEN <<>>
    ELSE LET rest == ScanLayersLast(layers, mediaType, i + 1)
         IN  IF layers[i].MediaType = mediaType /\ rest = <<>>
             THEN layers[i].Digest.Hex
             ELSE rest

\* The loop of lines 376-381 from position i on: the Hex of the first layer
\* whose media type equals mediaType, "" when the loop runs off the end.
RECURSIVE ScanLayers(_, _, _)
ScanLayers(layers, mediaType, i) ==
    IF i > Len(layers) THEN <<>>
    ELSE IF layers[i].MediaType # mediaType
         THEN ScanLayers(layers, mediaType, i + 1)
         ELSE layers[i].Digest.Hex

\* What the registry collaborator answers in one invocation: the error (or
\* NoErr) of each call in the order the function makes them, and the layers
\* of the manifest.  Only the first failing stage is ever consulted, so the
\* scenarios are: one per failing stage, and one per manifest.
TagErrs == {<<"ErrTagUnknown">>, <<"wrapped", "ErrTagUnknown">>, <<"backend">>}
OkRsp(layers) ==
    [repo |-> NoErr, tag |-> NoErr, msvc |-> NoErr, get |-> NoErr,
     payload |-> NoErr, decode |-> NoErr, layers |-> layers]
FailingResponses ==
    {[OkRsp(<<>>) EXCEPT !.repo = <<"backend">>]}
    \cup {[OkRsp(<<>>) EXCEPT !.tag = e] : e \in TagErrs}
    \cup {[OkRsp(<<>>) EXCEPT !.msvc = <<"backend">>]}
    \cup {[OkRsp(<<>>) EXCEPT !.get = <<"backend">>]}
    \cup {[OkRsp(<<>>) EXCEPT !.payload = <<"payload">>]}
    \cup {[OkRsp(<<>>) EXCEPT !.decode = <<"json">>]}
Responses == FailingResponses \cup {OkRsp(l) : l \in LayerLists}

\* The digest a tag descriptor carries (tagDesc.Digest).
TagDigest == <<"d">>

RegOp(op, arg) == [op |-> op, arg |-> arg]
Out(term, err, log) == [term |-> term, err |-> err, log |-> log]

\* Lines 326-383: the body of oci.blob_digest after the context check, for
\* arguments a, b and registry answers rsp.  Returns the term, the error
\* (errFn) and the registry calls made, in order.
DigestBody(a, b, rsp) ==
    IF ~IsString(a) THEN Out(NoTerm, NewErr("oci reference is not a string"), <<>>)
    ELSE IF ~IsString(b)
    THEN Out(NoTerm, NewErr("oci layer mediatype is not a string"), <<>>)
    ELSE
    LET ref == a.v
        tagIndex == LastIndexByte(ref, ":")
        name == SliceTo(ref, tagIndex)
        tag == SliceFrom(ref, tagIndex + 1)
        l1 == <<RegOp("Repository", name)>>
        l2 == Append(l1, RegOp("Tags.Get", tag))
        l3 == Append(l2, RegOp("Manifests", name))
        l4 == Append(l3, RegOp("Manifests.Get", TagDigest))
    IN  IF tagIndex < 0 THEN Out(NoTerm, NewErr("reference without tag"), <<>>)
        ELSE IF ~WithNameOk(name) THEN Out(NoTerm, NewErr("bad reference name"), <<>>)
        ELSE IF rsp.repo # NoErr
        THEN Out(NoTerm, Wrap("while getting repository", rsp.repo), l1)
        ELSE IF rsp.tag # NoErr
        THEN IF ErrorsAs(rsp.tag, "ErrTagUnknown")
             THEN Out(StringTerm(<<>>), NoErr, l2)
             ELSE Out(NoTerm, Wrap("while getting tag", rsp.tag), l2)
        ELSE IF rsp.msvc # NoErr
        THEN Out(NoTerm, Wrap("while getting manifest service", rsp.msvc), l3)
        ELSE IF rsp.get # NoErr
        THEN Out(NoTerm, Wrap("while getting manifest", rsp.get), l4)
        ELSE IF rsp.payload # NoErr THEN Out(NoTerm, rsp.payload, l4)
        ELSE IF rsp.decode # NoErr THEN Out(NoTerm, rsp.decode, l4)
        ELSE Out(StringTerm(ScanLayers(rsp.layers, b.v, 1)), NoErr, l4)


\* ------------------------------------------------------- request.body --
\* Body bytes of the model: two digits and the two brackets; ZeroByte is
\* what make([]byte, n) fills a fresh buffer with (line 288).
Digits == {"1", "2"}
ZeroByte == "z"

Fail == [ok |-> FALSE, val |-> NoTerm, next |-> 0]
Parsed(val, next) == [ok |-> TRUE, val |-> val, next |-> next]

\* Index after the maximal run of digits that starts at s[i].
RECURSIVE DigitsEnd(_, _)
DigitsEnd(s, i) ==
    IF i <= Len(s) /\ s[i] \in Digits THEN DigitsEnd(s, i + 1) ELSE i

\* The JSON value that starts at s[i], as a JSON decoder reads it: a number
\* (a run of digits, ended by any other byte or by the end of input), an
\* empty array or an array of one value.
RECURSIVE ParseValue(_, _)
ParseValue(s, i) ==
    IF i > Len(s) THEN Fail
    ELSE IF s[i] \in Digits
    THEN LET j == DigitsEnd(s, i)
         IN  Parsed([t |-> "number", v |-> SubSeq(s, i, j - 1)], j)
    ELSE IF s[i] = "[" /\ i + 1 <= Len(s)
    THEN IF s[i + 1] = "]" THEN Parsed([t |-> "array", v |-> <<>>], i + 2)
         ELSE LET r == ParseValue(s, i + 1)
              IN  IF r.ok /\ r.next <= Len(s) /\ s[r.next] = "]"
                  THEN Parsed([t |-> "array", v |-> <<r.val>>], r.next + 1)
                  ELSE Fail
    ELSE Fail

\* ast.ValueFromReader(r) (line 418): decodes the first JSON value of the
\* reader's bytes; bytes after that value are not looked at.
ValueFromReader(s) == ParseValue(s, 1)

\* http.Request.Body: nil, http.NoBody, the transport's stream (data = the
\* bytes not yet read) or a *bufPoolCloser (lines 296-299): a bytes.Reader at
\* offset off over the first n bytes of pooled buffer buf.
NilBody == [kind |-> "nil", data |-> <<>>, buf |-> 0, n |-> 0, off |-> 0]
NoBody == [kind |-> "NoBody", data |-> <<>>, buf |-> 0, n |-> 0, off |-> 0]
Stream(data) == [kind |-> "stream", data |-> data, buf |-> 0, n |-> 0, off |-> 0]
\* The replayable body without the Seek of line 423: the reader is left where
\* the decoder stopped reading, at the end of the n bytes.
BufPoolCloserNoSeek(b, n) ==
    [kind |-> "bpc", data |-> <<>>, buf |-> b, n |-> n, off |-> n]

\* A replayable body over the whole buffer instead of the bytes read.
BufPoolCloserWholeBuffer(b, n) ==
    [kind |-> "bpc", data |-> <<>>, buf |-> b, n |-> BufCap, off |-> 0]

\* &bufPoolCloser{bodyReader, buf} (line 425) after bodyReader.Seek(0,
\* io.SeekStart) (line 423), bodyReader being bytes.NewReader(body[:n]).
BufPoolCloser(b, n) == [kind |-> "bpc", data |-> <<>>, buf |-> b, n |-> n, off |-> 0]

\* A transport stream none of whose bytes (nor its end) has arrived yet: a
\* Read of it blocks until the peer delivers (Deliver).
Waiting(data) == [kind |-> "wait", data |-> data, buf |-> 0, n |-> 0, off |-> 0]

\* The bytes a reader of `body` gets from its current position to the end of
\* the stream, bd being the contents of the pooled buffers.
Content(body, bd) ==
    IF body.kind \in {"stream", "wait"} THEN body.data
    ELSE IF body.kind = "bpc" THEN SubSeq(bd[body.buf], body.off + 1, body.n)
    ELSE <<>>

\* `body` after a reader consumed k bytes of it.
Advance(body, k) ==
    IF body.kind = "stream" THEN [body EXCEPT !.data = SubSeq(@, k + 1, Len(@))]
    ELSE IF body.kind = "bpc" THEN [body EXCEPT !.off = @ + k]
    ELSE body

\* The condition of line 407 without the http.NoBody test.
HasBodyNilOnly(body) == body.kind # "nil"

\* Line 407: funcContext.req.Body != nil && funcContext.req.Body != http.NoBody
HasBody(body) == body.kind # "nil" /\ body.kind # "NoBody"

\* Bodies a request arrives with.
DigitRun(n) == [i \in 1..n |-> "1"]
InitBodies ==
    {NilBody, NoBody}
    \cup {Stream(d) : d \in {<<>>, <<"1">>, <<"1", "2">>, <<"[", "]">>, <<"]">>,
                             <<"[">> \o DigitRun(BufCap - 2) \o <<"]">>,
                             DigitRun(BufCap + 1)}}

\* Bodies of which nothing has arrived when the evaluation starts.
WaitingBodies == {Waiting(d) : d \in {<<>>, <<"1">>, <<"[", "]">>}}

VARIABLES
    attached,    \* e: the funcContext is stored in bctx.Context (lines 313, 394)
    reqBody,     \* e: funcContext.req.Body
    builtinErr,  \* e: funcContext.builtinErr
    cancelled,   \* e: bctx.Cancel has been cancelled
    pc,          \* e: where the evaluation is
    loc,         \* e: locals of the invocation in progress (buf, errFn)
    pre,         \* e: history: the state the last invocation started in
    args,        \* e: history: the arguments of the last oci.blob_digest call
                 \*    and what the registry answered in it
    ret,         \* e: what the last invocation returned to the evaluator
    regLog,      \* e: history: registry calls made by the last invocation
    calls,       \* e: invocations made so far
    pool,        \* bufferPool: for each buffer, how often it is in the pool
    bufData,     \* the contents of each buffer allocated so far
    gets,        \* history: for each buffer, how often Get returned it
    puts,        \* history: for each buffer, how often it was Put
    closer,      \* e: history: Close calls on the request body and their Puts
    lastFail,    \* e: history: the function and error of the most recent
                 \*    invocation that had the context and returned an error
    lookups      \* history: the lookups made in Action_name and Action_value

vars == <<attached, reqBody, builtinErr, cancelled, pc, loc, pre, args, ret,
          regLog, calls, pool, bufData, gets, puts, closer, lastFail, lookups>>

NoLoc == [fn |-> "none", buf |-> 0, errFn |-> NoErr]
NoRet == [fn |-> "none", term |-> NoTerm, err |-> NoErr]
Ret(fn, term, err) == [fn |-> fn, term |-> term, err |-> err]

RECURSIVE SumSeq(_)
SumSeq(s) == IF s = <<>> THEN 0 ELSE Head(s) + SumSeq(Tail(s))

\* What an invocation of evaluation e finds: the slot, the token, the body
\* and what it would yield, the number of buffers acquired so far, and what
\* the body yielded when the evaluation made its first invocation.
Snapshot(e) ==
    [builtinErr |-> builtinErr[e], cancelled |-> cancelled[e],
     body |-> reqBody[e], content |-> Content(reqBody[e], bufData),
     gets |-> SumSeq(gets),
     orig |-> IF calls[e] = 0 THEN Content(reqBody[e], bufData) ELSE pre[e].orig]

NoFail == [fn |-> "none", err |-> NoErr]

\* The state after construction in which the evaluations of `active` run,
\* each on a request with one of `bodies`.
InitFrom(active, bodies) ==
    /\ attached \in [Evals -> BOOLEAN]
    /\ reqBody \in [Evals -> bodies \cup {NilBody}]
    /\ \A e \in Evals \ active : attached[e] /\ reqBody[e] = NilBody
    /\ builtinErr = [e \in Evals |-> NoErr]
    /\ cancelled = [e \in Evals |-> FALSE]
    /\ pc = [e \in Evals |-> IF e \in active THEN "idle" ELSE "off"]
    /\ loc = [e \in Evals |-> NoLoc]
    /\ args = [e \in Evals |-> [a |-> NotString, b |-> NotString, rsp |-> OkRsp(<<>>)]]
    /\ ret = [e \in Evals |-> NoRet]
    /\ regLog = [e \in Evals |-> <<>>]
    /\ calls = [e \in Evals |-> 0]
    /\ pool = <<>>
    /\ bufData = <<>>
    /\ gets = <<>>
    /\ puts = <<>>
    /\ pre = [e \in Evals |-> Snapshot(e)]
    /\ closer = [e \in Evals |-> [calls |-> 0, puts |-> 0]]
    /\ lastFail = [e \in Evals |-> NoFail]
    /\ lookups = <<>>

InitWith(active) == InitFrom(active, InitBodies)

\* ------------------------------------------------------------ actions --
\* The evaluator invokes a custom function while it is running rules, between
\* invocations.  It looks at the cancel token on its own schedule, which is
\* not in this code: the model lets it invoke again before it has noticed
\* a cancellation, so that one evaluation may see several failures.
CanInvoke(e) == pc[e] = "idle" /\ calls[e] < MaxCalls

\* A missing funcContext that is reported without cancelling.
BadContextNoCancel(e, fn) ==
    /\ ret' = [ret EXCEPT ![e] = Ret(fn, NoTerm, NewErr("bad context"))]
    /\ UNCHANGED <<pc, loc, builtinErr, cancelled>>

\* Lines 314-317 and 395-398: without the funcContext the builtin cancels
\* and returns "bad context"; there is no funcContext to record it in.
BadContext(e, fn) ==
    /\ cancelled' = [cancelled EXCEPT ![e] = TRUE]
    /\ ret' = [ret EXCEPT ![e] = Ret(fn, NoTerm, NewErr("bad context"))]
    /\ UNCHANGED <<pc, loc, builtinErr>>

\* Arguments the policy passes to oci.blob_digest.
RefArgs ==
    {NotString}
    \cup {StringTerm(r) : r \in
            {<<>>, <<"a">>, <<"a", "/", "a">>,
             <<"a", ":", "a">>, <<":", "a">>, <<"a", ":">>,
             <<"a", ":", "a", ":", "a">>,
             <<"a", ":", "1", "/", "a">>,
             <<"a", ":", "1", "/", "a", ":", "a">>,
             <<"a", "/", "a", ":", "1">>}}
MediaTypeArgs == {NotString} \cup {StringTerm(m) : m \in MediaTypes}

\* oci.blob_digest (lines 312-384) up to its return statement; the deferred
\* function (lines 319-324) runs in DeferStore and DeferCancel when the
\* function returns an error, and does nothing otherwise.
DigestInvoke(e, a, b, rsp) ==
    /\ UNCHANGED <<lastFail, lookups>>
    /\ CanInvoke(e)
    /\ args' = [args EXCEPT ![e] = [a |-> a, b |-> b, rsp |-> rsp]]
    /\ IF ~attached[e]
       THEN /\ BadContext(e, "oci.blob_digest")
            /\ regLog' = [regLog EXCEPT ![e] = <<>>]
       ELSE LET out == DigestBody(a, b, rsp)
            IN  /\ regLog' = [regLog EXCEPT ![e] = out.log]
                /\ IF out.err = NoErr
                   THEN /\ ret' = [ret EXCEPT ![e] =
                                     Ret("oci.blob_digest", out.term, NoErr)]
                        /\ UNCHANGED <<pc, loc>>
                   ELSE /\ loc' = [loc EXCEPT ![e] =
                                     [fn |-> "oci.blob_digest", buf |-> 0,
                                      errFn |-> out.err]]
                        /\ pc' = [pc EXCEPT ![e] = "store"]
                        /\ UNCHANGED ret
                /\ UNCHANGED <<cancelled, builtinErr>>
    /\ calls' = [calls EXCEPT ![e] = @ + 1]
    /\ pre' = [pre EXCEPT ![e] = Snapshot(e)]
    /\ UNCHANGED <<attached, reqBody, pool, bufData, gets, puts, closer>>

\* An invocation of oci.blob_digest with any of the arguments and registry
\* answers of the model.
DigestCall(e) ==
    \E a \in RefArgs, b \in MediaTypeArgs, rsp \in Responses :
        DigestInvoke(e, a, b, rsp)

\* One invocation for each return statement of oci.blob_digest (lines 328,
\* 332, 339, 343, 348, 354, 356, 360, 364, 368, 372, 380, 383).
DigestPaths ==
    LET ref == StringTerm(<<"a", ":", "a">>)
        mt == StringTerm(<<"A">>)
        In(a, b, rsp) == [a |-> a, b |-> b, rsp |-> rsp]
    IN  {In(NotString, mt, OkRsp(<<>>)), In(ref, NotString, OkRsp(<<>>)),
         In(StringTerm(<<"a">>), mt, OkRsp(<<>>)),
         In(StringTerm(<<":", "a">>), mt, OkRsp(<<>>)),
         In(ref, mt, OkRsp(<<Layer(<<"A">>, 1)>>)),
         In(ref, mt, OkRsp(<<>>))}
        \cup {In(ref, mt, r) : r \in FailingResponses}

DigestCallPaths(e) ==
    \E in \in DigestPaths : DigestInvoke(e, in.a, in.b, in.rsp)

\* bufferPool.Get() (line 408): a buffer of the pool, or a new one from
\* newBuffer (lines 287-290) when the pool is empty.
GetChoices ==
    IF \E b \in 1..Len(pool) : pool[b] > 0
    THEN {b \in 1..Len(pool) : pool[b] > 0}
    ELSE {Len(pool) + 1}

PoolGet(b) ==
    IF b <= Len(pool)
    THEN /\ pool' = [pool EXCEPT ![b] = @ - 1]
         /\ gets' = [gets EXCEPT ![b] = @ + 1]
         /\ UNCHANGED <<bufData, puts>>
    ELSE /\ pool' = Append(pool, 0)
         /\ gets' = Append(gets, 1)
         /\ puts' = Append(puts, 0)
         /\ bufData' = Append(bufData, [i \in 1..BufCap |-> ZeroByte])

\* bufferPool.Put(buf) (line 302).
PoolPut(b) ==
    /\ pool' = [pool EXCEPT ![b] = @ + 1]
    /\ puts' = [puts EXCEPT ![b] = @ + 1]
    /\ UNCHANGED <<bufData, gets>>

\* request.body (lines 393-408 and 430-432): the context check, the test for
\* a body and, with a body, the acquisition of a buffer; without one the
\* function returns null.
BodyCall(e) ==
    /\ UNCHANGED <<lastFail, lookups>>
    /\ CanInvoke(e)
    /\ calls' = [calls EXCEPT ![e] = @ + 1]
    /\ pre' = [pre EXCEPT ![e] = Snapshot(e)]
    /\ IF ~attached[e]
       THEN /\ BadContext(e, "request.body")
            /\ UNCHANGED <<pool, bufData, gets, puts>>
       ELSE IF HasBody(reqBody[e])
       THEN \E b \in GetChoices :
              /\ PoolGet(b)
              /\ loc' = [loc EXCEPT ![e] =
                           [fn |-> "request.body", buf |-> b, errFn |-> NoErr]]
              /\ pc' = [pc EXCEPT ![e] = "read"]
              /\ UNCHANGED <<ret, cancelled, builtinErr>>
       ELSE /\ ret' = [ret EXCEPT ![e] = Ret("request.body", NullTerm, NoErr)]
            /\ UNCHANGED <<pc, loc, cancelled, builtinErr, pool, bufData, gets, puts>>
    /\ UNCHANGED <<attached, reqBody, args, regLog, closer>>

\* The byte counts io.ReadAtLeast(req.Body, *buf, 1) (line 410) may return:
\* it returns after the first Read that delivers a byte, so a transport
\* stream yields any k >= 1 up to what it holds and the buffer takes, a
\* bytes.Reader all it has left; 0 is a read that fails (end of stream, or
\* a transport error) before any byte.
ReadSizes(body) ==
    IF body.kind = "stream" THEN 0..Min(BufCap, Len(body.data))
    ELSE IF body.kind = "bpc" THEN {Min(BufCap, body.n - body.off)}
    ELSE IF body.kind = "wait" THEN {}
    ELSE {0}

\* A read that never counts as failed.
ReadNeverFails(k) == FALSE

\* Line 411, err != nil: io.ReadAtLeast returns an error iff it read fewer
\* than the 1 byte asked for.
ReadFailed(k) == k < 1

\* request.body, lines 410-427: read, parse, and on success install the
\* replayable body.
BodyRead(e) ==
    /\ UNCHANGED <<lastFail, lookups>>
    /\ pc[e] = "read"
    /\ \E k \in ReadSizes(reqBody[e]) :
        LET b == loc[e].buf
            data == SubSeq(Content(reqBody[e], bufData), 1, k)
            filled == data \o SubSeq(bufData[b], k + 1, BufCap)
            v == ValueFromReader(SubSeq(filled, 1, k))
        IN  IF ReadFailed(k)
            THEN /\ loc' = [loc EXCEPT ![e].errFn = NewErr("empty body request")]
                 /\ pc' = [pc EXCEPT ![e] = "store"]
                 /\ UNCHANGED <<reqBody, bufData, ret>>
            ELSE /\ bufData' = [bufData EXCEPT ![b] = filled]
                 /\ IF ~v.ok
                    THEN /\ loc' = [loc EXCEPT ![e].errFn = NewErr("json")]
                         /\ pc' = [pc EXCEPT ![e] = "store"]
                         /\ reqBody' = [reqBody EXCEPT ![e] = Advance(@, k)]
                         /\ UNCHANGED ret
                    ELSE /\ reqBody' = [reqBody EXCEPT ![e] = BufPoolCloser(b, k)]
                         /\ ret' = [ret EXCEPT ![e] = Ret("request.body", v.val, NoErr)]
                         /\ loc' = [loc EXCEPT ![e] = NoLoc]
                         /\ pc' = [pc EXCEPT ![e] = "idle"]
    /\ UNCHANGED <<attached, builtinErr, cancelled, pre, args, regLog, calls,
                   pool, gets, puts, closer>>

\* A deferred function that stores nothing.
DeferredErrDropped(fn, errFn) == NoErr

\* The error the deferred function stores (lines 321 and 402).
DeferredErr(fn, errFn) == Wrap("builtin eval " \o fn \o " error", errFn)

\* A deferred function that cancels first and has not stored the error.
DeferStoreCancelFirst(e) ==
    /\ UNCHANGED <<lastFail, lookups>>
    /\ pc[e] = "store"
    /\ cancelled' = [cancelled EXCEPT ![e] = TRUE]
    /\ pc' = [pc EXCEPT ![e] = "cancel"]
    /\ UNCHANGED <<attached, reqBody, builtinErr, loc, pre, args, ret, regLog,
                   calls, pool, bufData, gets, puts, closer>>

\* A deferred function that keeps the first error stored.
DeferStoreFirstWins(e) ==
    /\ UNCHANGED <<lastFail, lookups>>
    /\ pc[e] = "store"
    /\ builtinErr' = [builtinErr EXCEPT ![e] =
                        IF @ = NoErr THEN DeferredErr(loc[e].fn, loc[e].errFn)
                        ELSE @]
    /\ pc' = [pc EXCEPT ![e] = "cancel"]
    /\ UNCHANGED <<attached, reqBody, cancelled, loc, pre, args, ret, regLog,
                   calls, pool, bufData, gets, puts, closer>>

\* Deferred function, first statement (lines 321, 402), errFn being non-nil.
DeferStore(e) ==
    /\ UNCHANGED <<lastFail, lookups>>
    /\ pc[e] = "store"
    /\ builtinErr' = [builtinErr EXCEPT ![e] = DeferredErr(loc[e].fn, loc[e].errFn)]
    /\ pc' = [pc EXCEPT ![e] = "cancel"]
    /\ UNCHANGED <<attached, reqBody, cancelled, loc, pre, args, ret, regLog,
                   calls, pool, bufData, gets, puts, closer>>

\* A deferred function that does not cancel.
DeferCancelSkipped(e) ==
    /\ lastFail' = [lastFail EXCEPT ![e] = [fn |-> loc[e].fn, err |-> loc[e].errFn]]
    /\ UNCHANGED lookups
    /\ pc[e] = "cancel"
    /\ ret' = [ret EXCEPT ![e] = Ret(loc[e].fn, NoTerm, loc[e].errFn)]
    /\ loc' = [loc EXCEPT ![e] = NoLoc]
    /\ pc' = [pc EXCEPT ![e] = "idle"]
    /\ UNCHANGED <<attached, reqBody, builtinErr, cancelled, pre, args, regLog,
                   calls, pool, bufData, gets, puts, closer>>

\* Deferred function, second statement (lines 322, 403), and the return of
\* (nil, errFn) to the evaluator.
DeferCancel(e) ==
    /\ lastFail' = [lastFail EXCEPT ![e] = [fn |-> loc[e].fn, err |-> loc[e].errFn]]
    /\ UNCHANGED lookups
    /\ pc[e] = "cancel"
    /\ cancelled' = [cancelled EXCEPT ![e] = TRUE]
    /\ ret' = [ret EXCEPT ![e] = Ret(loc[e].fn, NoTerm, loc[e].errFn)]
    /\ loc' = [loc EXCEPT ![e] = NoLoc]
    /\ pc' = [pc EXCEPT ![e] = "idle"]
    /\ UNCHANGED <<attached, reqBody, builtinErr, pre, args, regLog, calls,
                   pool, bufData, gets, puts, closer>>

\* The evaluation ends (by itself or because it was cancelled) and the
\* request goes on to the downstream consumers of its body.
EndEval(e) ==
    /\ UNCHANGED <<lastFail, lookups>>
    /\ pc[e] = "idle"
    /\ pc' = [pc EXCEPT ![e] = "done"]
    /\ UNCHANGED <<attached, reqBody, builtinErr, cancelled, loc, pre, args, ret,
                   regLog, calls, pool, bufData, gets, puts, closer>>

\* A downstream consumer reads k bytes of the request body.
DownstreamRead(e) ==
    /\ UNCHANGED <<lastFail, lookups>>
    /\ pc[e] = "done"
    /\ reqBody[e].kind # "wait"
    /\ \E k \in 1..Len(Content(reqBody[e], bufData)) :
         reqBody' = [reqBody EXCEPT ![e] = Advance(@, k)]
    /\ UNCHANGED <<attached, builtinErr, cancelled, pc, loc, pre, args, ret,
                   regLog, calls, pool, bufData, gets, puts, closer>>

\* bufPoolCloser.Close (lines 301-304), called by a downstream consumer.
Close(e) ==
    /\ UNCHANGED <<lastFail, lookups>>
    /\ pc[e] = "done"
    /\ reqBody[e].kind = "bpc"
    /\ closer[e].calls < MaxClose
    /\ PoolPut(reqBody[e].buf)
    /\ closer' = [closer EXCEPT ![e] = [calls |-> @.calls + 1, puts |-> @.puts + 1]]
    /\ UNCHANGED <<attached, reqBody, builtinErr, cancelled, pc, loc, pre, args,
                   ret, regLog, calls>>

\* The peer delivers the first bytes (or the end) of a body stream.
Deliver(e) ==
    /\ pc[e] \in {"idle", "read"}
    /\ reqBody[e].kind = "wait"
    /\ reqBody' = [reqBody EXCEPT ![e] = Stream(@.data)]
    /\ UNCHANGED <<attached, builtinErr, cancelled, pc, loc, pre, args, ret,
                   regLog, calls, pool, bufData, gets, puts, closer, lastFail,
                   lookups>>

\* The evaluation's cancel token fires from outside the custom functions
\* (the caller of the evaluation cancels it).
ExternalCancel(e) ==
    /\ pc[e] \in {"idle", "read", "store", "cancel"}
    /\ ~cancelled[e]
    /\ cancelled' = [cancelled EXCEPT ![e] = TRUE]
    /\ UNCHANGED <<attached, reqBody, builtinErr, pc, loc, pre, args, ret,
                   regLog, calls, pool, bufData, gets, puts, closer, lastFail,
                   lookups>>

\* ----------------------------------------------------- the Action enum --
\* Lines 25-31.
Action_ACTION_UNSPECIFIED == 0
Action_ACTION_PUT == 1
Action_ACTION_DELETE == 2
Action_ACTION_START == 3
Action_ACTION_STOP == 4

\* Lines 35-41.
Action_name ==
    (0 :> "ACTION_UNSPECIFIED" @@ 1 :> "ACTION_PUT" @@ 2 :> "ACTION_DELETE"
     @@ 3 :> "ACTION_START" @@ 4 :> "ACTION_STOP")

\* Action_value with the numbers of START and STOP exchanged.
Action_valueSwapped ==
    ("ACTION_UNSPECIFIED" :> 0 @@ "ACTION_PUT" :> 1 @@ "ACTION_DELETE" :> 2
     @@ "ACTION_START" :> 4 @@ "ACTION_STOP" :> 3)

\* Lines 42-48.
Action_value ==
    ("ACTION_UNSPECIFIED" :> 0 @@ "ACTION_PUT" :> 1 @@ "ACTION_DELETE" :> 2
     @@ "ACTION_START" :> 3 @@ "ACTION_STOP" :> 4)

\* Action_name[n] and Action_value[s] as Go evaluates them: a key the map
\* does not hold yields the zero value.
NameOf(n) == IF n \in DOMAIN Action_name THEN Action_name[n] ELSE ""
ValueOf(s) == IF s \in DOMAIN Action_value THEN Action_value[s] ELSE 0

\* Numbers and names looked up: the enum's, and some that are not.
EnumNumbers == -1..5
EnumNames ==
    {"ACTION_UNSPECIFIED", "ACTION_PUT", "ACTION_DELETE", "ACTION_START",
     "ACTION_STOP", "ACTION_OTHER", ""}

routerVars == <<attached, reqBody, builtinErr, cancelled, pc, loc, pre, args,
                ret, regLog, calls, pool, bufData, gets, puts, closer, lastFail>>

\* Action_value[Action_name[n]]
LookupByNumber(n) ==
    /\ Len(lookups) < MaxLookups
    /\ lookups' = Append(lookups,
                         [kind |-> "number", num |-> n, name |-> NameOf(n),
                          backNum |-> ValueOf(NameOf(n)), backName |-> ""])
    /\ UNCHANGED routerVars

\* Action_name[Action_value[s]]
LookupByName(s) ==
    /\ Len(lookups) < MaxLookups
    /\ lookups' = Append(lookups,
                         [kind |-> "name", num |-> ValueOf(s), name |-> s,
                          backNum |-> 0, backName |-> NameOf(ValueOf(s))])
    /\ UNCHANGED routerVars

\* ------------------------------------------------------ specifications --
\* One evaluation, every operation; oci.blob_digest is invoked once along
\* each of its paths.
Init == InitWith({1})

Next ==
    \E e \in Evals :
        \/ DigestCallPaths(e)
        \/ BodyCall(e)
        \/ BodyRead(e)
        \/ DeferStore(e)
        \/ DeferCancel(e)
        \/ EndEval(e)
        \/ DownstreamRead(e)
        \/ Close(e)

Spec == Init /\ [][Next]_vars

\* NEval evaluations in flight, sharing bufferPool: the operations that
\* touch the pool or a request body.
InitConc == InitWith(Evals)

NextConc ==
    \E e \in Evals :
        \/ BodyCall(e)
        \/ BodyRead(e)
        \/ DeferStore(e)
        \/ DeferCancel(e)
        \/ EndEval(e)
        \/ DownstreamRead(e)
        \/ Close(e)

SpecConc == InitConc /\ [][NextConc]_vars

\* One evaluation of a request without body that invokes oci.blob_digest
\* with every argument and registry answer of the model.
InitDigest == InitFrom({1}, {})

NextDigest ==
    \E e \in Evals :
        \/ DigestCall(e)
        \/ DeferStore(e)
        \/ DeferCancel(e)
        \/ EndEval(e)

SpecDigest == InitDigest /\ [][NextDigest]_vars

\* One evaluation whose body stream may not have delivered anything yet and
\* whose cancel token may fire from outside.
InitBlock == InitFrom({1}, InitBodies \cup WaitingBodies)

NextBlock ==
    \E e \in Evals :
        \/ BodyCall(e)
        \/ BodyRead(e)
        \/ DeferStore(e)
        \/ DeferCancel(e)
        \/ EndEval(e)
        \/ Deliver(e)
        \/ ExternalCancel(e)

SpecBlock == InitBlock /\ [][NextBlock]_vars

\* Lookups in the tables of the Action enum.
InitEnum == InitFrom({}, {})

NextEnum ==
    \/ \E n \in EnumNumbers : LookupByNumber(n)
    \/ \E s \in EnumNames : LookupByName(s)

SpecEnum == InitEnum /\ [][NextEnum]_vars


\* ------------------------------------------------------------- claims --
\* The last invocation of evaluation e was of fn and has returned.
Returned(e, fn) == pc[e] \in {"idle", "done"} /\ ret[e].fn = fn

\* An invocation of e is between its first statement and its return.
InFlight(e) == pc[e] \in {"read", "store", "cancel"}

\* The evaluations that can still release buffer b: an invocation in
\* progress that acquired it, or a request whose body is a replayable body
\* over it that has not been closed.
Holders(b) ==
    {e \in Evals : \/ InFlight(e) /\ loc[e].buf = b
                   \/ /\ reqBody[e].kind = "bpc"
                      /\ reqBody[e].buf = b
                      /\ closer[e].calls = 0}

\* C1: every buffer request.body acquired is returned to the pool exactly
\* once, on the success, empty-body and parse-failure paths alike and with
\* NEval evaluations in flight: no buffer was Put more often than it was
\* acquired, and one that is acquired and not yet returned is still owned by
\* an invocation in progress or by an unclosed replayable body, which
\* returns it.
C1_EveryBufferReleasedExactlyOnce ==
    \A b \in 1..Len(gets) :
        /\ puts[b] <= gets[b]
        /\ puts[b] < gets[b] => Holders(b) # {}

\* C2 as stated: whenever either function returns an error (precondition,
\* parse or backend), the error slot is non-empty and the token cancelled.
C2_ErrorSlotSetOnEveryFatalError ==
    \A e \in Evals :
        (pc[e] \in {"idle", "done"} /\ ret[e].err # NoErr)
            => (builtinErr[e] # NoErr /\ cancelled[e])

\* C2, amended: whenever either function returns an error the token is
\* cancelled; with the context attached the error slot then holds that error,
\* wrapped; with the context missing there is no slot to write and it stays
\* empty.
C2_FatalErrorCancelsAndIsRecordedWhenAttached ==
    \A e \in Evals :
        (pc[e] \in {"idle", "done"} /\ ret[e].err # NoErr)
            => /\ cancelled[e]
               /\ attached[e] =>
                     /\ builtinErr[e] # NoErr
                     /\ \E m \in {"builtin eval oci.blob_digest error",
                                  "builtin eval request.body error"} :
                           builtinErr[e] = <<m>> \o ret[e].err
               /\ ~attached[e] => builtinErr[e] = NoErr

C2_Witness ==
    \E e \in Evals :
        /\ Returned(e, "request.body")
        /\ attached[e]
        /\ ret[e].err = <<"json">>
        /\ builtinErr[e] # NoErr
        /\ cancelled[e]

\* The whole of s is one JSON value.
IsOneValue(s) == ValueFromReader(s).ok /\ ValueFromReader(s).next = Len(s) + 1

\* request.body has just returned a value read from a body stream.
BodySuccess(e) ==
    /\ pc[e] = "idle"
    /\ ret[e].fn = "request.body"
    /\ ret[e].err = NoErr
    /\ HasBody(pre[e].body)

\* C3 as stated: for a body of 1..BufCap bytes that parses as one value, and
\* however the stream splits it into reads, after request.body returned
\* successfully the request body reads, from the start, the bytes it held
\* before the invocation.
C3_RoundTripForEverySplit ==
    \A e \in Evals :
        (/\ BodySuccess(e)
         /\ Len(pre[e].content) \in 1..BufCap
         /\ IsOneValue(pre[e].content))
            => Content(reqBody[e], bufData) = pre[e].content

\* C3, amended: the round trip holds when the read that io.ReadAtLeast
\* returns with delivered the whole body (as many bytes as the body held);
\* the value returned is then the body's value as well.
C3_RoundTripWhenFullyCaptured ==
    \A e \in Evals :
        (/\ BodySuccess(e)
         /\ Len(pre[e].content) \in 1..BufCap
         /\ IsOneValue(pre[e].content)
         /\ reqBody[e].n = Len(pre[e].content))
            => /\ Content(reqBody[e], bufData) = pre[e].content
               /\ ret[e].term = ValueFromReader(pre[e].content).val

C3_Witness ==
    \E e \in Evals :
        /\ BodySuccess(e)
        /\ pre[e].body.kind = "stream"
        /\ pre[e].content = <<"[">> \o DigitRun(BufCap - 2) \o <<"]">>
        /\ reqBody[e].kind = "bpc"
        /\ reqBody[e].n = BufCap
        /\ Content(reqBody[e], bufData) = pre[e].content

\* C4: however often (k >= 1) a replayable body is closed, and however much
\* of it was read before, its buffer is returned to the pool exactly once.
C4_CloseReleasesExactlyOnce ==
    \A e \in Evals : closer[e].calls >= 1 => closer[e].puts = 1

\* C5: the pool never double-issues a buffer: no buffer is in the pool's
\* free set more than once, and no buffer has two live holders.
C5_NoDoubleIssue ==
    \A b \in 1..Len(pool) :
        /\ pool[b] <= 1
        /\ Cardinality(Holders(b)) <= 1

\* oci.blob_digest has returned from an invocation that had the context and
\* two string arguments.
DigestReturned(e) ==
    /\ Returned(e, "oci.blob_digest")
    /\ attached[e]
    /\ IsString(args[e].a)
    /\ IsString(args[e].b)

\* The tag lookup of the last invocation of e was made and failed.
TagLookupFailed(e) ==
    /\ Len(regLog[e]) >= 2
    /\ regLog[e][2].op = "Tags.Get"
    /\ args[e].rsp.tag # NoErr

\* The error is, or wraps, the registry's "tag unknown" error.
IsTagUnknown(err) == "ErrTagUnknown" \in {err[i] : i \in 1..Len(err)}

\* C6: when the tag lookup is answered "tag unknown", oci.blob_digest
\* returns "" with no error: the error slot and the cancel token are as
\* before the call and no manifest is asked for; any other tag-lookup error
\* makes the invocation fail.
C6_UnknownTagIsEmptyResult ==
    \A e \in Evals :
        (DigestReturned(e) /\ TagLookupFailed(e))
            => IF IsTagUnknown(args[e].rsp.tag)
               THEN /\ ret[e] = Ret("oci.blob_digest", StringTerm(<<>>), NoErr)
                    /\ builtinErr[e] = pre[e].builtinErr
                    /\ cancelled[e] = pre[e].cancelled
                    /\ Len(regLog[e]) = 2
               ELSE /\ ret[e].err # NoErr
                    /\ ret[e].term = NoTerm

C6_Witness ==
    \E e \in Evals :
        /\ DigestReturned(e)
        /\ TagLookupFailed(e)
        /\ args[e].rsp.tag = <<"wrapped", "ErrTagUnknown">>
        /\ ret[e].term = StringTerm(<<>>)
        /\ ~cancelled[e]

HasColon(ref) == \E i \in 1..Len(ref) : ref[i] = ":"

\* C7: for a reference without ':' oci.blob_digest fails with the parse
\* error "reference without tag" and makes no registry call (the invocation
\* having the context and string arguments).
C7_NoColonFailsWithoutRegistry ==
    \A e \in Evals :
        (DigestReturned(e) /\ ~HasColon(args[e].a.v))
            => /\ ret[e] = Ret("oci.blob_digest", NoTerm, NewErr("reference without tag"))
               /\ regLog[e] = <<>>

C7_Witness ==
    \E e \in Evals :
        /\ DigestReturned(e)
        /\ args[e].a.v = <<"a", "/", "a">>
        /\ ret[e].err = NewErr("reference without tag")
        /\ regLog[e] = <<>>

\* The reference function of C8: the Hex of the layer with the least index
\* among those of media type mt, "" when there is none.
Matching(layers, mt) == {i \in 1..Len(layers) : layers[i].MediaType = mt}
FirstMatchHex(layers, mt) ==
    IF Matching(layers, mt) = {} THEN <<>>
    ELSE layers[CHOOSE i \in Matching(layers, mt) :
                   \A j \in Matching(layers, mt) : i <= j].Digest.Hex

\* The last invocation of e got the manifest of its tag and decoded it.
ManifestDecoded(e) ==
    /\ Len(regLog[e]) = 4
    /\ args[e].rsp = OkRsp(args[e].rsp.layers)

\* C8: for a resolvable tag the result is the hex digest, without the
\* algorithm, of the first layer in manifest order whose media type equals
\* the argument, and "" when no layer matches; in both cases no error is
\* returned or recorded and nothing is cancelled.
C8_FirstMatchingLayerDigest ==
    \A e \in Evals :
        (DigestReturned(e) /\ ManifestDecoded(e))
            => /\ ret[e] = Ret("oci.blob_digest",
                               StringTerm(FirstMatchHex(args[e].rsp.layers, args[e].b.v)),
                               NoErr)
               /\ builtinErr[e] = pre[e].builtinErr
               /\ cancelled[e] = pre[e].cancelled

C8_Witness ==
    \E e \in Evals :
        /\ DigestReturned(e)
        /\ ManifestDecoded(e)
        /\ Cardinality(Matching(args[e].rsp.layers, args[e].b.v)) >= 2
        /\ ret[e].term = StringTerm(HexAt(1))

\* ref is name ":" tag with no ':' in tag: the split at the last ':'.
SplitsAtLastColon(ref, name, tag) ==
    /\ ref = name \o <<":">> \o tag
    /\ ~HasColon(tag)

\* C9: a reference with a ':' is split at its last ':': the repository
\* opened is the part before it and the tag looked up the part after it,
\* also when the name has ':' in it; when that name is not a valid
\* repository name the registry is not contacted.
C9_SplitAtLastColon ==
    \A e \in Evals :
        (DigestReturned(e) /\ HasColon(args[e].a.v))
            => \E i \in 1..Len(args[e].a.v) :
                 LET ref == args[e].a.v
                     name == SubSeq(ref, 1, i - 1)
                     tag == SubSeq(ref, i + 1, Len(ref))
                 IN  /\ SplitsAtLastColon(ref, name, tag)
                     /\ IF WithNameOk(name)
                        THEN /\ Len(regLog[e]) >= 1
                             /\ regLog[e][1] = RegOp("Repository", name)
                             /\ args[e].rsp.repo = NoErr =>
                                   /\ Len(regLog[e]) >= 2
                                   /\ regLog[e][2] = RegOp("Tags.Get", tag)
                        ELSE /\ regLog[e] = <<>>
                             /\ ret[e].err = NewErr("bad reference name")

C9_Witness ==
    \E e \in Evals :
        /\ DigestReturned(e)
        /\ args[e].a.v = <<"a", ":", "1", "/", "a", ":", "a">>
        /\ Len(regLog[e]) >= 2
        /\ regLog[e][1] = RegOp("Repository", <<"a", ":", "1", "/", "a">>)
        /\ regLog[e][2] = RegOp("Tags.Get", <<"a">>)

\* C10: with no body (nil or http.NoBody) request.body returns null and no
\* error: the error slot and the cancel token are as before the call, no
\* buffer was acquired and the request's body is the one it was (the
\* invocation having the context).
C10_NoBodyReturnsNull ==
    \A e \in Evals :
        (/\ Returned(e, "request.body")
         /\ attached[e]
         /\ pre[e].body.kind \in {"nil", "NoBody"})
            => /\ ret[e] = Ret("request.body", NullTerm, NoErr)
               /\ builtinErr[e] = pre[e].builtinErr
               /\ cancelled[e] = pre[e].cancelled
               /\ SumSeq(gets) = pre[e].gets
               /\ reqBody[e] = pre[e].body

C10_Witness ==
    \E e \in Evals :
        /\ Returned(e, "request.body")
        /\ attached[e]
        /\ pre[e].body = NoBody
        /\ ret[e].term = NullTerm
        /\ calls[e] = MaxCalls

\* C11: with a body stream that yields no byte (empty, or drained by an
\* earlier read), request.body returns the error "empty body request" and no
\* value; the request's body is the one it was (no replayable body installed),
\* the error slot holds that error, wrapped, and the token is cancelled.
C11_EmptyBodyFails ==
    \A e \in Evals :
        (/\ Returned(e, "request.body")
         /\ attached[e]
         /\ calls[e] > 0
         /\ HasBody(pre[e].body)
         /\ Len(pre[e].content) = 0)
            => /\ ret[e] = Ret("request.body", NoTerm, NewErr("empty body request"))
               /\ reqBody[e] = pre[e].body
               /\ builtinErr[e] = <<"builtin eval request.body error",
                                    "empty body request">>
               /\ cancelled[e]

\* The second invocation finds the stream drained by the first, which read
\* all of it and could not parse it.
C11_Witness ==
    \E e \in Evals :
        /\ Returned(e, "request.body")
        /\ attached[e]
        /\ calls[e] = 2
        /\ pre[e].body.kind = "stream"
        /\ Len(pre[e].orig) > 0
        /\ Len(pre[e].content) = 0
        /\ ret[e].err = NewErr("empty body request")
        /\ reqBody[e].kind = "stream"

\* C12: without the evaluation context attached, an invocation of either
\* function returns an error and cancels the token; it made no registry call,
\* left the request body as it was and acquired no buffer.
C12_MissingContextCancelsOnly ==
    \A e \in Evals :
        (pc[e] \in {"idle", "done"} /\ ~attached[e] /\ calls[e] > 0)
            => /\ ret[e].fn \in {"oci.blob_digest", "request.body"}
               /\ ret[e].err = NewErr("bad context")
               /\ ret[e].term = NoTerm
               /\ cancelled[e]
               /\ regLog[e] = <<>>
               /\ SumSeq(gets) = pre[e].gets
               /\ pc[e] = "idle" => reqBody[e] = pre[e].body

C12_Witness ==
    \E e \in Evals :
        /\ Returned(e, "oci.blob_digest")
        /\ ~attached[e]
        /\ IsString(args[e].a)
        /\ HasColon(args[e].a.v)
        /\ ret[e].err = NewErr("bad context")
        /\ cancelled[e]
        /\ regLog[e] = <<>>

\* C13 as stated: in every state in which the token has been cancelled (by
\* a custom function: nothing else cancels here) the error slot is non-empty.
C13_CancelledImpliesSlotSet ==
    \A e \in Evals : cancelled[e] => builtinErr[e] # NoErr

\* C13, amended: with the context attached, the failing invocation has stored
\* its error in the slot when it is about to cancel, and the slot is non-empty
\* whenever the token is cancelled; with the context missing there is no slot
\* and the token is cancelled with nothing stored.
C13_StoredBeforeCancelledWhenAttached ==
    \A e \in Evals :
        /\ pc[e] = "cancel" =>
              /\ attached[e]
              /\ builtinErr[e] = <<"builtin eval " \o loc[e].fn \o " error">>
                                     \o loc[e].errFn
        /\ (cancelled[e] /\ attached[e]) => builtinErr[e] # NoErr
        /\ (cancelled[e] /\ ~attached[e]) => builtinErr[e] = NoErr

\* The first failure of an evaluation: stored, not yet cancelled.
C13_Witness ==
    \E e \in Evals :
        /\ pc[e] = "cancel"
        /\ attached[e]
        /\ ~cancelled[e]
        /\ builtinErr[e] # NoErr

\* C14: between invocations the error slot holds the (wrapped) error of the
\* most recent invocation that failed with the context attached, and is empty
\* iff there was none; that invocation is the last one if the last one
\* failed.
C14_LastWriterWins ==
    \A e \in Evals :
        pc[e] \in {"idle", "done"} =>
            /\ builtinErr[e] =
                  IF lastFail[e] = NoFail THEN NoErr
                  ELSE <<"builtin eval " \o lastFail[e].fn \o " error">>
                           \o lastFail[e].err
            /\ (builtinErr[e] = NoErr) <=> (lastFail[e] = NoFail)
            /\ (attached[e] /\ ret[e].err # NoErr) =>
                  lastFail[e] = [fn |-> ret[e].fn, err |-> ret[e].err]
            /\ (attached[e] /\ ret[e].err = NoErr) =>
                  builtinErr[e] = pre[e].builtinErr
            /\ ~attached[e] => lastFail[e] = NoFail

\* Two failures in one evaluation, of different functions with different
\* errors: the slot held the first and now holds the second.
C14_Witness ==
    \E e \in Evals :
        /\ pc[e] = "idle"
        /\ calls[e] = 2
        /\ pre[e].builtinErr = <<"builtin eval request.body error", "json">>
        /\ ret[e].fn = "oci.blob_digest"
        /\ ret[e].err # NoErr
        /\ builtinErr[e] = <<"builtin eval oci.blob_digest error">> \o ret[e].err

\* C15: the replayable body request.body installs is positioned at its start
\* and yields exactly the n bytes the read returned, the first n of what the
\* body held, with 0 < n <= BufCap; it refers to the buffer this invocation
\* acquired, in which those bytes are; and whatever is read of it later, a
\* replayable body never yields a byte of its buffer beyond the n-th.
C15_ReplayableBodyIsTheBytesRead ==
    \A e \in Evals :
        /\ BodySuccess(e) =>
              /\ reqBody[e].kind = "bpc"
              /\ reqBody[e].off = 0
              /\ reqBody[e].n \in 1..Min(BufCap, Len(pre[e].content))
              /\ Content(reqBody[e], bufData)
                    = SubSeq(pre[e].content, 1, reqBody[e].n)
              /\ SumSeq(gets) = pre[e].gets + 1
              /\ reqBody[e].buf \in 1..Len(gets)
              /\ SubSeq(bufData[reqBody[e].buf], 1, reqBody[e].n)
                    = SubSeq(pre[e].content, 1, reqBody[e].n)
        /\ reqBody[e].kind = "bpc" =>
              /\ reqBody[e].n \in 1..BufCap
              /\ reqBody[e].off \in 0..reqBody[e].n
              /\ Len(Content(reqBody[e], bufData)) = reqBody[e].n - reqBody[e].off

\* A read that returned fewer bytes than the body held and than the buffer
\* takes: the rest of the buffer is not part of the replayable body.
C15_Witness ==
    \E e \in Evals :
        /\ BodySuccess(e)
        /\ pre[e].content = <<"1", "2">>
        /\ reqBody[e].kind = "bpc"
        /\ reqBody[e].n = 1
        /\ reqBody[e].n < BufCap
        /\ Content(reqBody[e], bufData) = <<"1">>

\* C16: when the token is cancelled while request.body waits in its read
\* for the first bytes of the body, the invocation can go on (abandon the
\* read and return) without the stream delivering anything.
C16_CancelledReadCanReturn ==
    \A e \in Evals :
        (pc[e] = "read" /\ cancelled[e]) => ENABLED BodyRead(e)

\* C17: with the context attached, and nothing else cancelling, an
\* invocation that returns a result leaves the error slot and the token as it
\* found them, one that returns an error leaves the token cancelled, and
\* until it fails an invocation has changed neither: the token goes from
\* not cancelled to cancelled in an invocation iff it returns an error.
C17_CancelAndRecordOnlyOnFailure ==
    \A e \in Evals :
        /\ (pc[e] \in {"idle", "done"} /\ attached[e] /\ calls[e] > 0) =>
              /\ ret[e].err = NoErr =>
                    /\ builtinErr[e] = pre[e].builtinErr
                    /\ cancelled[e] = pre[e].cancelled
              /\ ret[e].err # NoErr => cancelled[e]
              /\ ~pre[e].cancelled => (cancelled[e] <=> ret[e].err # NoErr)
        /\ (pc[e] \in {"read", "store"} /\ attached[e]) =>
              /\ builtinErr[e] = pre[e].builtinErr
              /\ cancelled[e] = pre[e].cancelled

\* An absence outcome (no matching layer) after an earlier failure: the
\* slot and the token stay as that failure left them.
C17_Witness ==
    \E e \in Evals :
        /\ Returned(e, "oci.blob_digest")
        /\ attached[e]
        /\ calls[e] = 2
        /\ ret[e] = Ret("oci.blob_digest", StringTerm(<<>>), NoErr)
        /\ Len(regLog[e]) > 0
        /\ pre[e].cancelled
        /\ cancelled[e]
        /\ builtinErr[e] = pre[e].builtinErr
        /\ builtinErr[e] # NoErr

\* The second of two invocations of request.body in evaluation e has
\* returned a value, the first having read the whole body (1..BufCap bytes).
SecondBodyCall(e) ==
    /\ ret[e] # NoRet
    /\ ret[e].fn = "request.body"
    /\ ret[e].err = NoErr
    /\ calls[e] = 2
    /\ pre[e].body.kind = "bpc"
    /\ pre[e].body.off = 0
    /\ Len(pre[e].orig) \in 1..BufCap
    /\ pre[e].body.n = Len(pre[e].orig)

\* C18: a second invocation of request.body returns the value of the first
\* and leaves the body yielding the same bytes from the start, and once the
\* final request body has been closed every buffer the two invocations
\* acquired has been returned to the pool exactly once.
C18_RepeatedBodyCallIdempotent ==
    \A e \in Evals :
        /\ (pc[e] = "idle" /\ SecondBodyCall(e)) =>
              /\ ret[e].term = ValueFromReader(pre[e].orig).val
              /\ Content(reqBody[e], bufData) = pre[e].orig
        /\ (pc[e] = "done" /\ SecondBodyCall(e) /\ closer[e].calls = 1) =>
              \A b \in 1..Len(gets) : puts[b] = gets[b]

\* C19: the Action enum is the five values 0..4 under their five names;
\* Action_name and Action_value are defined on exactly these numbers and
\* names, and every lookup made of a number of the enum and back, or of a
\* name of the enum and back, gave what it started from.
C19_ActionTablesInverse ==
    /\ <<Action_ACTION_UNSPECIFIED, Action_ACTION_PUT, Action_ACTION_DELETE,
         Action_ACTION_START, Action_ACTION_STOP>> = <<0, 1, 2, 3, 4>>
    /\ DOMAIN Action_name = 0..4
    /\ DOMAIN Action_value = {Action_name[n] : n \in 0..4}
    /\ Cardinality(DOMAIN Action_value) = 5
    /\ Action_value["ACTION_UNSPECIFIED"] = Action_ACTION_UNSPECIFIED
    /\ Action_value["ACTION_PUT"] = Action_ACTION_PUT
    /\ Action_value["ACTION_DELETE"] = Action_ACTION_DELETE
    /\ Action_value["ACTION_START"] = Action_ACTION_START
    /\ Action_value["ACTION_STOP"] = Action_ACTION_STOP
    /\ \A i \in 1..Len(lookups) :
          /\ (lookups[i].kind = "number" /\ lookups[i].num \in 0..4) =>
                lookups[i].backNum = lookups[i].num
          /\ (lookups[i].kind = "name" /\ lookups[i].name \in DOMAIN Action_value) =>
                lookups[i].backName = lookups[i].name

C19_Witness ==
    /\ Len(lookups) = 2
    /\ lookups[1] = [kind |-> "number", num |-> 4, name |-> "ACTION_STOP",
                     backNum |-> 4, backName |-> ""]
    /\ lookups[2] = [kind |-> "name", num |-> 3, name |-> "ACTION_START",
                     backNum |-> 0, backName |-> "ACTION_START"]

=============================================================================
